---- MODULE Spec2Model ----
(***************************************************************************)
(* EventPass Pro (module5-event-pass-pro): the event-registration path.    *)
(*                                                                         *)
(* The ledger is one Firestore document events/{id} with its               *)
(* sub-collection events/{id}/registrations/{userId}.  Server actions      *)
(* (actions/eventActions.ts) call the data layer (data/events), which      *)
(* calls lib/firebase/firestore.ts.  registerForEvent runs inside          *)
(* adminDb.runTransaction: every await of the callback is a step of its    *)
(* own, and the commit applies the buffered writes only when the           *)
(* documents read have not changed since they were read; otherwise the     *)
(* callback is run again (firestore.ts lines 114-122).                     *)
(***************************************************************************)
EXTENDS Integers, FiniteSets, Sequences, TLC

\* ---------------------------------------------------------------- bounds
MaxCap == 2
MaxUsers == 3
\* Calls of registerForEvent against one event (SpecReg).
MaxCalls == 3
\* Calls of registerForEventAction that run beside create, update and delete (Spec).
MaxSysCalls == 2
\* Attempts of runTransaction before it gives up (set by the SDK, not by the code).
MaxAttempts == 2
MaxOps == 1
\* The length of the names given to searchCountries.
MaxNameLen == 3
\* The notifications onAuthStateChanged delivers to one AuthProvider.
MaxAuthEvents == 4
\* The accounts that sign in on one browser.
MaxAuthUsers == 2
\* The submits of one LoginForm (the form and the Google button together).
MaxSubmits == 3
\* The clicks on the two generator buttons of one EventForm.
MaxGenerations == 3
\* The longest title typed into the form.
MaxTitleLen == 6

Users == 1..MaxUsers
Calls == 1..MaxCalls
SysCalls == 1..MaxSysCalls
Ops == 1..MaxOps
Capacities == 1..MaxCap

\* No ID token in the cookie (validateAuth returns null).
NoToken == 0

\* ------------------------------------------------------------- constants
EVENT_STATUSES == {"borrador", "publicado", "cancelado", "finalizado"}

\* The statuses the forms submit in this model: one that is published, one that is not.
FormStatuses == {"borrador", "publicado"}

\* A form field that was left empty (formData.get(...) is falsy).
NoValue == "absent"

\* Error messages thrown by lib/firebase/firestore.ts registerForEvent.
MsgNotFound == "Evento no encontrado"
MsgUserAlreadyRegistered == "UserAlreadyRegistered"
MsgEventFull == "EventFull"
\* Errors raised by the Firestore SDK itself (not by the callback).
MsgAborted == "ABORTED: too much contention"
MsgUnavailable == "UNAVAILABLE"

\* Messages of data/events registerForEvent and of the server actions
\* (written here without their accents and inverted marks).
MsgYaRegistrado == "Ya estas registrado en este evento"
MsgLleno == "El evento esta lleno"
MsgNoSePudo == "No se pudo completar el registro. Intenta de nuevo."
MsgRegistrado == "Te has registrado correctamente!"
MsgErrorAlRegistrarse == "Error al registrarse"
MsgDebesIniciarSesion == "Debes iniciar sesion para realizar esta accion"
MsgNoAutenticado == "No autenticado"
MsgUpdateOk == "Evento actualizado correctamente"
MsgUpdateNotFound == "No se encontro el evento a actualizar o no tienes permisos"
MsgDeleteNotFound == "No se encontro el evento a eliminar o no tienes permisos"
MsgUnauthorized == "Unauthorized"
MsgRedirect == "redirect"

\* ----------------------------------------------------------------- state
VARIABLES
    event,          \* the document events/{id}
    registrations,  \* the user ids with a document events/{id}/registrations/{userId}
    call,           \* call[c]: one invocation of registerForEventAction
    op,             \* op[o]: one invocation of createEventAction / updateEventAction / deleteEventAction
    button,         \* one RegisterButton on the event's page, in one user's browser
    search,         \* one invocation of searchCountries (module1-country-explorer)
    authProvider,   \* the AuthProvider that mirrors the auth state into a cookie
    loginForm,      \* one LoginForm under the AuthProvider of the auth context
    eventForm       \* one EventForm with its two AI generation buttons

vars ==
    <<event, registrations, call, op, button, search,
      authProvider, loginForm, eventForm>>

\* The document before createEvent has written it.
NoDoc ==
    [state |-> "absent", capacity |-> 0, registeredCount |-> 0,
     status |-> NoValue, organizerId |-> NoToken, updateTime |-> 0]

\* The document after docRef.delete().
DeletedDoc == [NoDoc EXCEPT !.state = "deleted"]

IdleCall ==
    [pc |-> "idle", user |-> NoToken, attempt |-> 0, data |-> NoDoc,
     outcome |-> "none", success |-> FALSE, message |-> ""]

IdleOp ==
    [pc |-> "idle", kind |-> "none", user |-> NoToken,
     capacity |-> 0, status |-> NoValue, outcome |-> "none", message |-> ""]

\* The page of the event is not open: no RegisterButton is mounted.
\* pending: the calls of registerForEventAction whose transition has not ended;
\* version: the updateTime of the event document the props were computed from;
\* result: result.success of the last call that has resolved;
\* console: the last message given to console.error.
NoButton ==
    [mounted |-> FALSE, user |-> NoToken, availableSpots |-> 0, isAvailable |-> FALSE,
     version |-> 0, pending |-> {}, result |-> "none", console |-> ""]

\* No error has been thrown.
NoError == [type |-> "none", message |-> "", statusCode |-> 0]

\* No response body has been read.
NoBody == [kind |-> "none", items |-> <<>>]

\* searchCountries has not been called.
\* requests: the calls of fetch made; status / body: the response received;
\* settled: how the promise settled, with value (returned) or error (thrown).
IdleSearch ==
    [pc |-> "idle", name |-> <<>>, url |-> <<>>, requests |-> 0, status |-> 0,
     body |-> NoBody, settled |-> "none", value |-> <<>>, error |-> NoError]

\* An AuthProvider (cookie variant) whose effect has not subscribed yet.
\* current: the auth state of the Firebase SDK; events: the notifications the
\* observer has received; awaiting: the callbacks suspended at getIdToken.
NoUser == 0
NoCookie == 0
UnmountedAuthProvider ==
    [user |-> NoUser, loading |-> TRUE, current |-> NoUser, events |-> 0,
     cookie |-> NoCookie, awaiting |-> {}]

\* A LoginForm and the auth context it uses, before the provider's effect ran.
\* auth: getFirebaseAuth() gave an Auth; error, loading, user: the context's
\* state; session: the user Firebase holds; pushed: the routes given to
\* router.push; authenticated, navigated: what the last submit did.
UnmountedLoginForm ==
    [auth |-> FALSE, isLogin |-> TRUE, isSubmitting |-> FALSE, pc |-> "idle",
     error |-> "", loading |-> TRUE, user |-> NoUser, session |-> NoUser,
     pushed |-> <<>>, submits |-> 0, authenticated |-> FALSE,
     navigated |-> FALSE]

\* An EventForm that is not rendered. title: the length of the title input's
\* value; magic / poster: the two generator buttons, each with its own
\* isGenerating and the position of its handleGenerate; pending: the form
\* action is running (useFormStatus); toast: the last toast shown;
\* endedBesideOther: the last generation to end did so while the other one
\* was in progress.
UnmountedEventForm ==
    [mounted |-> FALSE, isEditing |-> FALSE, title |-> 0,
     isAiGenerating |-> FALSE, isPosterGenerating |-> FALSE,
     magic |-> [isGenerating |-> FALSE, pc |-> "idle"],
     poster |-> [isGenerating |-> FALSE, pc |-> "idle"],
     pending |-> FALSE, toast |-> "", generations |-> 0,
     endedBesideOther |-> FALSE]

\* -------------------------------------------------- results of a register
\* What the promise of firestore.ts registerForEvent settles to, by cause:
\* the callback's return value, one of its three throws, or an SDK error.
FirestoreRegister(cause) ==
    CASE cause = "ok" -> [thrown |-> FALSE, message |-> ""]
      [] cause = "NotFound" -> [thrown |-> TRUE, message |-> MsgNotFound]
      [] cause = "AlreadyRegistered" -> [thrown |-> TRUE, message |-> MsgUserAlreadyRegistered]
      [] cause = "EventFull" -> [thrown |-> TRUE, message |-> MsgEventFull]
      [] cause = "Contention" -> [thrown |-> TRUE, message |-> MsgAborted]
      [] OTHER -> [thrown |-> TRUE, message |-> MsgUnavailable]

\* data/events registerForEvent: the try/catch around the Firestore call.
\* isNull: the wrapper returned null.
DataRegister(r) ==
    IF ~r.thrown
    THEN [thrown |-> FALSE, isNull |-> FALSE, message |-> ""]
    ELSE IF r.message = MsgUserAlreadyRegistered
    THEN [thrown |-> TRUE, isNull |-> FALSE, message |-> MsgYaRegistrado]
    ELSE IF r.message = MsgEventFull
    THEN [thrown |-> TRUE, isNull |-> FALSE, message |-> MsgLleno]
    ELSE [thrown |-> FALSE, isNull |-> TRUE, message |-> ""]

\* registerForEventAction after validateAuth succeeded: the FormState.
RegisterFormState(d) ==
    IF d.thrown
    THEN [success |-> FALSE,
          message |-> IF d.message # "" THEN d.message ELSE MsgErrorAlRegistrarse]
    ELSE IF d.isNull
    THEN [success |-> FALSE, message |-> MsgNoSePudo]
    ELSE [success |-> TRUE, message |-> MsgRegistrado]

\* authError(): the FormState of an unauthenticated call.
authError ==
    [success |-> FALSE, message |-> MsgDebesIniciarSesion,
     errors |-> [auth |-> <<MsgNoAutenticado>>]]

\* The call c has settled with the given cause.
Settled(c, cause) ==
    LET fs == RegisterFormState(DataRegister(FirestoreRegister(cause)))
    IN [call[c] EXCEPT !.pc = "done", !.attempt = 0, !.data = NoDoc, !.outcome = cause,
                       !.success = fs.success, !.message = fs.message]

\* The uids seen so far: the organizer's and those of the calls made.
KnownUsers ==
    ({event.organizerId, button.user} \cup {call[c].user : c \in Calls}
        \cup {op[o].user : o \in Ops}) \ {NoToken}

\* validateAuth yields an opaque uid: uids are numbered in the order in which
\* they first appear, so a token is a known uid or the next new one.
NextUid(token) == \A u \in Users : u < token => u \in KnownUsers

\* ------------------------------------------------------------------ Init
Init ==
    /\ event = NoDoc
    /\ registrations = {}
    /\ call = [c \in Calls |-> IdleCall]
    /\ op = [o \in Ops |-> IdleOp]
    /\ button = NoButton
    /\ search = IdleSearch
    /\ authProvider = UnmountedAuthProvider
    /\ loginForm = UnmountedLoginForm
    /\ eventForm = UnmountedEventForm

\* ------------------------------------------------------------ createEvent
\* createEventAction: validateAuth, createEventSchema.safeParse (capacity an
\* integer >= 1, status one of EVENT_STATUSES), then data/events createEvent
\* adds registeredCount: 0 and firestore createEvent writes the new document.
createEvent(u, cap, st) ==
    /\ event.state = "absent"
    /\ NextUid(u)
    /\ event' = [state |-> "live", capacity |-> cap, registeredCount |-> 0,
                 status |-> st, organizerId |-> u, updateTime |-> 1]
    /\ UNCHANGED <<registrations, call, op, button, search, authProvider, loginForm, eventForm>>

\* createEventAction without a valid token: authError() is returned before
\* the form is read and before the data layer is called.
createEventUnauthenticated(o) ==
    /\ op[o].pc = "idle"
    /\ \A p \in Ops : p < o => op[p].pc # "idle"
    /\ op' = [op EXCEPT ![o] =
                [IdleOp EXCEPT !.pc = "done", !.kind = "create",
                               !.outcome = "Unauthenticated",
                               !.message = authError.message]]
    /\ UNCHANGED <<event, registrations, call, button, search, authProvider, loginForm, eventForm>>

\* ------------------------------------------------------- registerForEvent
\* Mutant: registerForEventAction without its validateAuth guard: the call
\* goes on to the data layer with no uid.
BegunCallNoAuthCheck(token) ==
    [IdleCall EXCEPT !.pc = "getEvent", !.user = token, !.attempt = 1]

\* const auth = await validateAuth(); if (!auth) return authError();
\* otherwise the call goes on to registerInDb(id, auth.uid).
BegunCall(token) ==
    IF token = NoToken
    THEN [IdleCall EXCEPT !.pc = "done", !.outcome = "Unauthenticated",
                          !.success = authError.success,
                          !.message = authError.message]
    ELSE [IdleCall EXCEPT !.pc = "getEvent", !.user = token, !.attempt = 1]

\* registerForEventAction up to the start of the transaction: validateAuth,
\* then registerInDb(id, auth.uid).
BeginRegister(c, token) ==
    /\ call[c].pc = "idle"
    /\ \A d \in Calls : d < c => call[d].pc # "idle"
    /\ NextUid(token)
    /\ call' = [call EXCEPT ![c] = BegunCall(token)]
    /\ UNCHANGED <<event, registrations, op, button, search, authProvider, loginForm, eventForm>>

\* const eventDoc = await t.get(eventRef); if (!eventDoc.exists) throw ...
TxGetEvent(c) ==
    /\ call[c].pc = "getEvent"
    /\ call' = [call EXCEPT ![c] =
                  IF event.state # "live"
                  THEN Settled(c, "NotFound")
                  ELSE [call[c] EXCEPT !.pc = "getRegistration", !.data = event]]
    /\ UNCHANGED <<event, registrations, op, button, search, authProvider, loginForm, eventForm>>

\* Mutant: the capacity check off by one (> for >=).
IsFullOffByOne(data) == data.registeredCount > data.capacity

\* if (currentCount >= capacity) throw new Error('EventFull')
IsFull(data) == data.registeredCount >= data.capacity

\* Mutant: the callback without its registrationDoc.exists check.
RegisterDecisionNoMarkerCheck(registrationExists, data) ==
    IF data.registeredCount >= data.capacity THEN "EventFull" ELSE "write"

\* Mutant: the capacity check moved before the registrationDoc.exists check.
RegisterDecisionFullFirst(registrationExists, data) ==
    IF data.registeredCount >= data.capacity THEN "EventFull"
    ELSE IF registrationExists THEN "AlreadyRegistered"
    ELSE "write"

\* The checks of the callback after its second read, in the order of the code.
RegisterDecision(registrationExists, data) ==
    IF registrationExists THEN "AlreadyRegistered"
    ELSE IF IsFull(data) THEN "EventFull"
    ELSE "write"

\* const registrationDoc = await t.get(registrationRef); the two checks; the
\* buffered t.set / t.update (applied by TxCommit).
TxGetRegistration(c) ==
    /\ call[c].pc = "getRegistration"
    /\ LET decision == RegisterDecision(call[c].user \in registrations, call[c].data)
       IN call' = [call EXCEPT ![c] =
                     IF decision = "write"
                     THEN [call[c] EXCEPT !.pc = "commit"]
                     ELSE Settled(c, decision)]
    /\ UNCHANGED <<event, registrations, op, button, search, authProvider, loginForm, eventForm>>

\* Mutant: plain reads and writes instead of a transaction: a concurrent
\* change of the event document goes unnoticed.
CommitValidIgnoringEvent(c) == call[c].user \notin registrations

\* The commit applies only when neither document read has changed since.
CommitValid(c) ==
    /\ event = call[c].data
    /\ call[c].user \notin registrations

\* Mutant: the registration document is written and the counter is not.
CommittedEventNoIncrement(data) ==
    [data EXCEPT !.updateTime = data.updateTime + 1]

\* t.update(eventRef, { registeredCount: newCount })
CommittedEvent(data) ==
    [data EXCEPT !.registeredCount = data.registeredCount + 1,
                 !.updateTime = data.updateTime + 1]

\* Mutant: the counter is incremented and no registration document is written.
CommittedRegistrationsNone(regs, u) == regs

\* t.set(registrationRef, { userId, registeredAt })
CommittedRegistrations(regs, u) == regs \cup {u}

\* The end of runTransaction's attempt: commit, or run the callback again, or
\* give up after MaxAttempts attempts.
TxCommit(c) ==
    /\ call[c].pc = "commit"
    /\ IF CommitValid(c)
       THEN /\ event' = CommittedEvent(call[c].data)
            /\ registrations' = CommittedRegistrations(registrations, call[c].user)
            /\ call' = [call EXCEPT ![c] = Settled(c, "ok")]
       ELSE /\ call' = [call EXCEPT ![c] =
                          IF call[c].attempt < MaxAttempts
                          THEN [call[c] EXCEPT !.pc = "getEvent", !.data = NoDoc,
                                               !.attempt = call[c].attempt + 1]
                          ELSE Settled(c, "Contention")]
            /\ UNCHANGED <<event, registrations>>
    /\ UNCHANGED <<op, button, search, authProvider, loginForm, eventForm>>

\* A read of the transaction fails in transport: the SDK's promise rejects
\* with an error that is none of the callback's, and nothing is written.
TxTransportFailure(c) ==
    /\ call[c].pc \in {"getEvent", "getRegistration"}
    /\ call' = [call EXCEPT ![c] = Settled(c, "TransportFailure")]
    /\ UNCHANGED <<event, registrations, op, button, search, authProvider, loginForm, eventForm>>

\* --------------------------------------------- updateEvent / deleteEvent
\* updateEventAction / deleteEventAction up to the data layer's first read:
\* validateAuth, the form fields that have a value, the partial schema.
\* cap = 0 and st = NoValue stand for a field left empty; a form the schema
\* rejects returns its errors before any read or write and is not modelled.
BeginOp(o, kind, token, cap, st) ==
    /\ op[o].pc = "idle"
    /\ \A p \in Ops : p < o => op[p].pc # "idle"
    /\ NextUid(token)
    /\ kind = "delete" => cap = 0 /\ st = NoValue
    /\ op' = [op EXCEPT ![o] =
                IF token = NoToken
                THEN [IdleOp EXCEPT !.pc = "done", !.kind = kind,
                                    !.outcome = "Unauthenticated",
                                    !.message = authError.message]
                ELSE [IdleOp EXCEPT !.pc = "read", !.kind = kind, !.user = token,
                                    !.capacity = cap, !.status = st]]
    /\ UNCHANGED <<event, registrations, call, button, search, authProvider, loginForm, eventForm>>

\* Mutant: the update carries registeredCount: 0, as the data of createEvent does.
UpdatedEventResetsCount(doc, cap, st) ==
    [doc EXCEPT !.capacity = IF cap # 0 THEN cap ELSE doc.capacity,
                !.status = IF st # NoValue THEN st ELSE doc.status,
                !.registeredCount = 0,
                !.updateTime = doc.updateTime + 1]

\* docRef.update(updateData): only the fields of the form are written.
UpdatedEvent(doc, cap, st) ==
    [doc EXCEPT !.capacity = IF cap # 0 THEN cap ELSE doc.capacity,
                !.status = IF st # NoValue THEN st ELSE doc.status,
                !.updateTime = doc.updateTime + 1]

\* Mutant: no ownership check.
IsOwnerAnyone(doc, user) == TRUE

\* if (userId && event.organizerId !== userId) throw new Error('Unauthorized')
IsOwner(doc, user) == doc.organizerId = user

\* The operation o has ended with the given outcome and message.
OpDone(o, outcome, message) ==
    [op[o] EXCEPT !.pc = "done", !.capacity = 0, !.status = NoValue,
                  !.outcome = outcome, !.message = message]

\* data/events updateEvent / deleteEvent: getEventById, then the ownership check.
OpRead(o) ==
    /\ op[o].pc = "read"
    /\ op' = [op EXCEPT ![o] =
                IF event.state # "live"
                THEN OpDone(o, "NotFound", IF op[o].kind = "update"
                                           THEN MsgUpdateNotFound
                                           ELSE MsgDeleteNotFound)
                ELSE IF ~IsOwner(event, op[o].user)
                THEN OpDone(o, "Thrown", MsgUnauthorized)
                ELSE [op[o] EXCEPT !.pc = "write"]]
    /\ UNCHANGED <<event, registrations, call, button, search, authProvider, loginForm, eventForm>>

\* firestore updateEvent (docRef.update fails on a missing document) and
\* firestore deleteEvent (docRef.delete), then the action's result.
OpWrite(o) ==
    /\ op[o].pc = "write"
    /\ IF op[o].kind = "update"
       THEN IF event.state = "live"
            THEN /\ event' = UpdatedEvent(event, op[o].capacity, op[o].status)
                 /\ op' = [op EXCEPT ![o] = OpDone(o, "ok", MsgUpdateOk)]
            ELSE /\ event' = event
                 /\ op' = [op EXCEPT ![o] = OpDone(o, "Thrown", MsgNotFound)]
       ELSE /\ event' = DeletedDoc
            /\ op' = [op EXCEPT ![o] = OpDone(o, "ok", MsgRedirect)]
    /\ UNCHANGED <<registrations, call, button, search, authProvider, loginForm, eventForm>>

\* ------------------------------------------------------------------ Next
Next ==
    \/ \E u \in Users, cap \in Capacities, st \in FormStatuses : createEvent(u, cap, st)
    \/ \E o \in Ops : createEventUnauthenticated(o)
    \/ \E c \in SysCalls, token \in Users \cup {NoToken} : BeginRegister(c, token)
    \/ \E c \in Calls : TxGetEvent(c)
    \/ \E c \in Calls : TxGetRegistration(c)
    \/ \E c \in Calls : TxCommit(c)
    \/ \E c \in Calls : TxTransportFailure(c)
    \/ \E o \in Ops, kind \in {"update", "delete"}, token \in Users \cup {NoToken},
          cap \in Capacities \cup {0}, st \in FormStatuses \cup {NoValue} :
          BeginOp(o, kind, token, cap, st)
    \/ \E o \in Ops : OpRead(o)
    \/ \E o \in Ops : OpWrite(o)

Spec == Init /\ [][Next]_vars

\* ------------------------------------------- registrations on one event
\* The state right after createEvent, for any creator, capacity and status.
InitReg ==
    /\ \E u \in Users, cap \in Capacities, st \in FormStatuses :
          /\ \A v \in Users : u <= v
          /\ event = [state |-> "live", capacity |-> cap, registeredCount |-> 0,
                      status |-> st, organizerId |-> u, updateTime |-> 1]
    /\ registrations = {}
    /\ call = [c \in Calls |-> IdleCall]
    /\ op = [o \in Ops |-> IdleOp]
    /\ button = NoButton
    /\ search = IdleSearch
    /\ authProvider = UnmountedAuthProvider
    /\ loginForm = UnmountedLoginForm
    /\ eventForm = UnmountedEventForm

\* Concurrent registerForEvent calls of authenticated users, nothing else.
NextReg ==
    \/ \E c \in Calls, token \in Users : BeginRegister(c, token)
    \/ \E c \in Calls : TxGetEvent(c)
    \/ \E c \in Calls : TxGetRegistration(c)
    \/ \E c \in Calls : TxCommit(c)

SpecReg == InitReg /\ [][NextReg]_vars

\* ------------------------------------- registerForEvent, the earlier variant
\* firestore.ts lines 364-406: no registration documents, the userId is not
\* used; the callback returns null where the later variant throws.
\* Mutant: the status is not looked at.
EarlyDecisionNoStatus(data) ==
    IF data.registeredCount >= data.capacity THEN "null" ELSE "write"

\* if (currentCount >= data.capacity) return null;
\* if (data.status !== 'publicado') return null;
EarlyDecision(data) ==
    IF data.registeredCount >= data.capacity THEN "null"
    ELSE IF data.status # "publicado" THEN "null"
    ELSE "write"

\* transaction.update(docRef, { registeredCount: currentCount + 1, updatedAt })
EarlyCommittedEvent(data) ==
    [data EXCEPT !.registeredCount = data.registeredCount + 1,
                 !.updateTime = data.updateTime + 1]

\* The call c has settled: with the event returned (data), with null, or
\* with the rejection of runTransaction.
EarlySettled(c, outcome, returned) ==
    [call[c] EXCEPT !.pc = "done", !.attempt = 0, !.data = returned,
                    !.outcome = outcome, !.success = (outcome = "ok")]

\* registerForEvent(eventId, _userId) is called: runTransaction starts.
BeginEarlyRegister(c) ==
    /\ call[c].pc = "idle"
    /\ \A d \in Calls : d < c => call[d].pc # "idle"
    /\ call' = [call EXCEPT ![c] = [IdleCall EXCEPT !.pc = "earlyGet", !.attempt = 1]]
    /\ UNCHANGED <<event, registrations, op, button, search, authProvider, loginForm, eventForm>>

\* const docSnap = await transaction.get(docRef); the three checks; the
\* buffered transaction.update (applied by EarlyTxCommit).
EarlyTxGet(c) ==
    /\ call[c].pc = "earlyGet"
    /\ call' = [call EXCEPT ![c] =
                  IF event.state # "live" THEN EarlySettled(c, "null", NoDoc)
                  ELSE IF EarlyDecision(event) = "null" THEN EarlySettled(c, "null", NoDoc)
                  ELSE [call[c] EXCEPT !.pc = "earlyCommit", !.data = event]]
    /\ UNCHANGED <<event, registrations, op, button, search, authProvider, loginForm, eventForm>>

\* The end of the attempt: commit and return { ...data, registeredCount:
\* currentCount + 1 }, or run the callback again, or give up.
EarlyTxCommit(c) ==
    /\ call[c].pc = "earlyCommit"
    /\ IF event = call[c].data
       THEN /\ event' = EarlyCommittedEvent(call[c].data)
            /\ call' = [call EXCEPT ![c] =
                          EarlySettled(c, "ok",
                             [call[c].data EXCEPT
                                 !.registeredCount = call[c].data.registeredCount + 1])]
       ELSE /\ call' = [call EXCEPT ![c] =
                          IF call[c].attempt < MaxAttempts
                          THEN [call[c] EXCEPT !.pc = "earlyGet", !.data = NoDoc,
                                               !.attempt = call[c].attempt + 1]
                          ELSE EarlySettled(c, "Contention", NoDoc)]
            /\ UNCHANGED event
    /\ UNCHANGED <<registrations, op, button, search, authProvider, loginForm, eventForm>>

\* Calls of the earlier variant, before and after the event is created.
NextEarly ==
    \/ \E u \in Users, cap \in Capacities, st \in FormStatuses : createEvent(u, cap, st)
    \/ \E c \in Calls : BeginEarlyRegister(c)
    \/ \E c \in Calls : EarlyTxGet(c)
    \/ \E c \in Calls : EarlyTxCommit(c)

SpecEarly == Init /\ [][NextEarly]_vars

\* --------------------------------------------------------- searchCountries
\* module1-country-explorer/src/services/countryApi.ts.  A name is a string
\* of UTF-16 code units: a white-space character, a letter, a high surrogate
\* ("H") and a low surrogate ("L").
Chars == {" ", "a", "H", "L"}
Names == UNION {[1..n -> Chars] : n \in 0..MaxNameLen}

\* String.prototype.trim: white space is removed from both ends.
RECURSIVE TrimStart(_)
TrimStart(s) == IF s # <<>> /\ Head(s) = " " THEN TrimStart(Tail(s)) ELSE s

RECURSIVE TrimEnd(_)
TrimEnd(s) ==
    IF s # <<>> /\ s[Len(s)] = " " THEN TrimEnd(SubSeq(s, 1, Len(s) - 1)) ELSE s

Trim(s) == TrimEnd(TrimStart(s))

\* encodeURIComponent throws a URIError on a string that holds a surrogate
\* which is not part of a pair.
RECURSIVE WellFormed(_)
WellFormed(s) ==
    IF s = <<>> THEN TRUE
    ELSE IF Head(s) = "H"
    THEN Len(s) >= 2 /\ s[2] = "L" /\ WellFormed(Tail(Tail(s)))
    ELSE IF Head(s) = "L" THEN FALSE
    ELSE WellFormed(Tail(s))

\* encodeURIComponent of a well-formed string: a letter stays, white space
\* and a surrogate pair become the escapes of their UTF-8 bytes.
RECURSIVE encodeURIComponent(_)
encodeURIComponent(s) ==
    IF s = <<>> THEN <<>>
    ELSE IF Head(s) = "H" THEN <<"%F0%9F%8C%8D">> \o encodeURIComponent(Tail(Tail(s)))
    ELSE IF Head(s) = " " THEN <<"%20">> \o encodeURIComponent(Tail(s))
    ELSE <<Head(s)>> \o encodeURIComponent(Tail(s))

\* new ApiError(message, statusCode)
ApiError(message, statusCode) ==
    [type |-> "ApiError", message |-> message, statusCode |-> statusCode]

\* The catch block: an ApiError is rethrown as it is, a TypeError becomes the
\* connection error, anything else the unexpected error.
CatchSearchError(error) ==
    IF error.type = "ApiError" THEN error
    ELSE IF error.type = "TypeError"
    THEN ApiError("Error de conexion. Verifica tu conexion a internet.", 0)
    ELSE ApiError("Error inesperado al buscar paises", 0)

\* The promise of searchCountries settles.
SearchReturned(value) ==
    [search EXCEPT !.pc = "done", !.settled = "returned", !.value = value]
SearchThrown(error) ==
    [search EXCEPT !.pc = "done", !.settled = "thrown", !.error = error]

\* searchCountries(name) up to its first await: trim, the empty check, the
\* url (built before the try block), fetch(url).
searchCountries(name) ==
    /\ search.pc = "idle"
    /\ LET trimmedName == Trim(name)
           called == [search EXCEPT !.name = name]
       IN search' =
            IF Len(trimmedName) = 0
            THEN [called EXCEPT !.pc = "done", !.settled = "returned", !.value = <<>>]
            ELSE IF ~WellFormed(trimmedName)
            THEN [called EXCEPT !.pc = "done", !.settled = "thrown",
                                !.error = [type |-> "URIError", message |-> "URI malformed",
                                           statusCode |-> 0]]
            ELSE [called EXCEPT !.pc = "fetch", !.url = encodeURIComponent(trimmedName),
                                !.requests = @ + 1]
    /\ UNCHANGED <<event, registrations, call, op, button, authProvider, loginForm, eventForm>>

\* response.ok: the status is in the range 200-299.
ResponseOk(status) == 200 <= status /\ status <= 299

\* await fetch(url) rejects (with a TypeError on a network error, or with
\* some other error), or gives a response with a status.
FetchSettles(rejection, status) ==
    /\ search.pc = "fetch"
    /\ search' =
          IF rejection # "none"
          THEN SearchThrown(CatchSearchError([type |-> rejection, message |-> "",
                                              statusCode |-> 0]))
          ELSE IF ~ResponseOk(status)
          THEN IF status = 404
               THEN [SearchReturned(<<>>) EXCEPT !.status = status]
               ELSE [SearchThrown(CatchSearchError(ApiError("Error del servidor", status)))
                       EXCEPT !.status = status]
          ELSE [search EXCEPT !.pc = "json", !.status = status]
    /\ UNCHANGED <<event, registrations, call, op, button, authProvider, loginForm, eventForm>>

\* await response.json() rejects (the body is not JSON, or the connection
\* broke), or gives the parsed body; then the Array.isArray check.
JsonSettles(rejection, body) ==
    /\ search.pc = "json"
    /\ search' =
          IF rejection # "none"
          THEN SearchThrown(CatchSearchError([type |-> rejection, message |-> "",
                                              statusCode |-> 0]))
          ELSE IF body.kind # "array"
          THEN [SearchThrown(CatchSearchError(ApiError("Respuesta inesperada de la API", 0)))
                  EXCEPT !.body = body]
          ELSE [SearchReturned(body.items) EXCEPT !.body = body]
    /\ UNCHANGED <<event, registrations, call, op, button, authProvider, loginForm, eventForm>>

\* The statuses and bodies the API answers with in this model.
Statuses == {200, 204, 404, 500}
Bodies ==
    {[kind |-> "array", items |-> <<>>], [kind |-> "array", items |-> <<"ESP">>],
     [kind |-> "object", items |-> <<>>]}

NextSearch ==
    \/ \E name \in Names : searchCountries(name)
    \/ \E rejection \in {"none", "TypeError", "AbortError"}, status \in Statuses :
          FetchSettles(rejection, status)
    \/ \E rejection \in {"none", "TypeError", "SyntaxError"}, body \in Bodies :
          JsonSettles(rejection, body)

SpecSearch == Init /\ [][NextSearch]_vars

\* ---------------------------------------------------------- RegisterButton
\* The texts of the button (written without accents and inverted marks).
LabelRegistrado == "Registrado!"
LabelAgotado == "Evento Agotado"
LabelNoDisponible == "No disponible"
LabelRegistrando == "Registrando..."

\* `Registrarme (${optimisticSpots} plazas)`
LabelRegistrarme(n) == "Registrarme (" \o ToString(n) \o " plazas)"

\* The props the event's page gives the button: the spots left on the ledger
\* and whether the event accepts registrations.
PageAvailableSpots(doc) == doc.capacity - doc.registeredCount
PageIsAvailable(doc) == doc.status = "publicado"

\* Math.max
Max(a, b) == IF a >= b THEN a ELSE b

\* Mutant: the reducer leaves the spots as they are.
OptimisticReducerKeeps(currentSpots) == currentSpots

\* Mutant: the reducer without Math.max.
OptimisticReducerNoFloor(currentSpots) == currentSpots - 1

\* (currentSpots, _action) => Math.max(0, currentSpots - 1)
OptimisticReducer(currentSpots) == Max(0, currentSpots - 1)

\* useOptimistic: the prop, with the reducer applied once for every
\* addOptimistic('register') of a transition that has not ended.
RECURSIVE ApplyOptimistic(_, _)
ApplyOptimistic(spots, n) ==
    IF n = 0 THEN spots ELSE ApplyOptimistic(OptimisticReducer(spots), n - 1)

optimisticSpots(b) == ApplyOptimistic(b.availableSpots, Cardinality(b.pending))

\* useTransition
isPending(b) == b.pending # {}

showRegistered(b) == optimisticSpots(b) < b.availableSpots

\* Mutant: availability is not looked at.
canRegisterIgnoringAvailability(b) == optimisticSpots(b) > 0 /\ ~showRegistered(b)

\* Mutant: the spots left are not looked at.
canRegisterIgnoringSpots(b) == b.isAvailable /\ ~showRegistered(b)

canRegister(b) == b.isAvailable /\ optimisticSpots(b) > 0 /\ ~showRegistered(b)

\* Mutant: the register button is rendered whatever the state, never disabled.
RenderAlwaysClickable(b) ==
    [text |-> LabelRegistrarme(optimisticSpots(b)), disabled |-> FALSE]

\* Mutant: the '!Registrado!' branch tests the last result, not the spots.
RenderRegisteredOnSuccess(b) ==
    IF b.result = "success"
    THEN [text |-> LabelRegistrado, disabled |-> TRUE]
    ELSE IF ~canRegister(b) /\ ~showRegistered(b)
    THEN [text |-> IF optimisticSpots(b) = 0 THEN LabelAgotado ELSE LabelNoDisponible,
          disabled |-> TRUE]
    ELSE [text |-> IF isPending(b) THEN LabelRegistrando
                   ELSE LabelRegistrarme(optimisticSpots(b)),
          disabled |-> isPending(b)]

\* The element the component returns: its text, and whether it is disabled
\* (only the last branch has an onClick).
Render(b) ==
    IF showRegistered(b)
    THEN [text |-> LabelRegistrado, disabled |-> TRUE]
    ELSE IF ~canRegister(b)
    THEN [text |-> IF optimisticSpots(b) = 0 THEN LabelAgotado ELSE LabelNoDisponible,
          disabled |-> TRUE]
    ELSE [text |-> IF isPending(b) THEN LabelRegistrando
                   ELSE LabelRegistrarme(optimisticSpots(b)),
          disabled |-> isPending(b)]

\* The page of the event is opened by user u: the button is mounted with the
\* props of the page's render.
PageLoad(u) ==
    /\ ~button.mounted
    /\ event.state = "live"
    /\ NextUid(u)
    /\ button' = [NoButton EXCEPT !.mounted = TRUE, !.user = u,
                                  !.availableSpots = PageAvailableSpots(event),
                                  !.isAvailable = PageIsAvailable(event),
                                  !.version = event.updateTime]
    /\ UNCHANGED <<event, registrations, call, op, search, authProvider, loginForm, eventForm>>

\* A click on the enabled button: handleRegister starts the transition, queues
\* the optimistic update and calls registerForEventAction(eventId), which runs
\* as call c with the session's token (NoToken: the session has ended).
handleRegister(c, token) ==
    /\ button.mounted
    /\ ~Render(button).disabled
    /\ token \in {button.user, NoToken}
    /\ call[c].pc = "idle"
    /\ \A d \in Calls : d < c => call[d].pc # "idle"
    /\ call' = [call EXCEPT ![c] = BegunCall(token)]
    /\ button' = [button EXCEPT !.pending = @ \cup {c}]
    /\ UNCHANGED <<event, registrations, op, search, authProvider, loginForm, eventForm>>

\* Mutant: a failed result leaves no trace in the component.
ResolvedButtonForgetsFailure(b, c) ==
    [b EXCEPT !.pending = @ \ {c},
              !.result = IF call[c].success THEN "success" ELSE @,
              !.availableSpots = IF call[c].success THEN PageAvailableSpots(event) ELSE @,
              !.isAvailable = IF call[c].success THEN PageIsAvailable(event) ELSE @,
              !.version = IF call[c].success THEN event.updateTime ELSE @]

\* Mutant: a failed result is handled as a successful one is.
ResolvedButtonAlwaysRefreshes(b, c) ==
    [b EXCEPT !.pending = @ \ {c},
              !.result = IF call[c].success THEN "success" ELSE "failure",
              !.console = IF call[c].success THEN @ ELSE call[c].message,
              !.availableSpots = PageAvailableSpots(event),
              !.isAvailable = PageIsAvailable(event),
              !.version = event.updateTime]

\* Mutant: the props are not refreshed after a success (no revalidatePath).
ResolvedButtonNeverRefreshes(b, c) ==
    [b EXCEPT !.pending = @ \ {c},
              !.result = IF call[c].success THEN "success" ELSE "failure",
              !.console = IF call[c].success THEN @ ELSE call[c].message]

\* The button after `await registerForEventAction(eventId)` has given its
\* result: console.error when !result.success; the transition ends, so its
\* optimistic update is dropped; after a success the page's data, revalidated
\* by the action (revalidatePath), arrive as new props.
ResolvedButton(b, c) ==
    [b EXCEPT !.pending = @ \ {c},
              !.result = IF call[c].success THEN "success" ELSE "failure",
              !.console = IF call[c].success THEN @ ELSE call[c].message,
              !.availableSpots = IF call[c].success THEN PageAvailableSpots(event) ELSE @,
              !.isAvailable = IF call[c].success THEN PageIsAvailable(event) ELSE @,
              !.version = IF call[c].success THEN event.updateTime ELSE @]

\* The result of call c reaches the button.
ActionResolves(c) ==
    /\ c \in button.pending
    /\ call[c].pc = "done"
    /\ button' = ResolvedButton(button, c)
    /\ UNCHANGED <<event, registrations, call, op, search, authProvider, loginForm, eventForm>>

\* One button on the page of a freshly created event, beside the register
\* calls of other sessions.
NextUI ==
    \/ \E u \in Users : PageLoad(u)
    \/ \E c \in Calls, token \in Users \cup {NoToken} : handleRegister(c, token)
    \/ \E c \in Calls : ActionResolves(c)
    \/ \E c \in Calls, token \in Users : BeginRegister(c, token)
    \/ \E c \in Calls : TxGetEvent(c)
    \/ \E c \in Calls : TxGetRegistration(c)
    \/ \E c \in Calls : TxCommit(c)
    \/ \E c \in Calls : TxTransportFailure(c)

SpecUI == InitReg /\ [][NextUI]_vars

\* The same, with the scheduling the runtime gives: a transaction that can
\* take its next step takes it, and a result that has been returned reaches
\* the component that awaits it.
SpecUIFair ==
    /\ InitReg
    /\ [][NextUI]_vars
    /\ \A c \in Calls : /\ WF_vars(TxGetEvent(c))
                         /\ WF_vars(TxGetRegistration(c))
                         /\ WF_vars(TxCommit(c))
                         /\ WF_vars(ActionResolves(c))

\* One button beside the register calls of other sessions and an update of
\* the event's capacity by its organizer.
NextUIOwner ==
    \/ \E u \in Users : PageLoad(u)
    \/ \E c \in SysCalls, token \in Users \cup {NoToken} : handleRegister(c, token)
    \/ \E c \in Calls : ActionResolves(c)
    \/ \E c \in SysCalls, token \in Users : BeginRegister(c, token)
    \/ \E c \in Calls : TxGetEvent(c)
    \/ \E c \in Calls : TxGetRegistration(c)
    \/ \E c \in Calls : TxCommit(c)
    \/ \E o \in Ops, cap \in Capacities :
          BeginOp(o, "update", event.organizerId, cap, NoValue)
    \/ \E o \in Ops : OpRead(o)
    \/ \E o \in Ops : OpWrite(o)

SpecUIOwner == InitReg /\ [][NextUIOwner]_vars

\* ================================================================ claims
Min(a, b) == IF a <= b THEN a ELSE b

Started == {c \in Calls : call[c].pc # "idle"}
Succeeded == {c \in Calls : call[c].outcome = "ok"}
AllSettled == \A c \in Started : call[c].pc = "done"
DistinctCallers == \A c, d \in Started : c # d => call[c].user # call[d].user

\* C1: under any interleaving of registerForEvent calls against one event of
\* capacity C, at most C calls succeed and registeredCount never exceeds C.
C1_AtMostCapacitySucceed ==
    /\ event.registeredCount <= event.capacity
    /\ Cardinality(Succeeded) <= event.capacity

\* C1 witness: the event is filled to its capacity of MaxCap by as many
\* successful calls, and a further call has been turned away.
C1_Witness ==
    /\ event.capacity >= 2
    /\ event.registeredCount = event.capacity
    /\ Cardinality(Succeeded) = event.capacity
    /\ \E c \in Calls : call[c].outcome = "EventFull"

C3_MarkersEqualCount ==
    event.state = "live" => Cardinality(registrations) = event.registeredCount

\* C3 witness: two registrations have committed on an event that has also
\* been updated by its organizer.
C3_Witness ==
    /\ event.state = "live"
    /\ event.registeredCount = 2
    /\ \E o \in Ops : op[o].kind = "update" /\ op[o].outcome = "ok"

C5_CountWrittenOnlyByRegistration ==
    [][/\ (event.state = "absent" /\ event'.state = "live")
          => event'.registeredCount = 0
       /\ (event.state = "live" /\ event'.state = "live"
              /\ event'.registeredCount # event.registeredCount)
          => /\ event'.registeredCount = event.registeredCount + 1
             /\ \E c \in Calls : call[c].pc = "commit" /\ call'[c].outcome = "ok"
       /\ event'.state = "live"
          => event'.registeredCount = Cardinality({c \in Calls : call'[c].outcome = "ok"})]_vars

\* C5 witness: an update of the organizer is about to be written while a
\* registration that read the event before it is about to commit, after
\* another registration has committed.
C5_Witness ==
    /\ event.state = "live"
    /\ event.registeredCount = 1
    /\ \E o \in Ops : op[o].pc = "write" /\ op[o].kind = "update"
    /\ \E c \in Calls : call[c].pc = "commit"

\* C6 as claimed: N distinct callers on an event of capacity C: exactly
\* min(N, C) succeed and every other caller receives EventFull.
C6_Original ==
    (AllSettled /\ DistinctCallers)
    => /\ Cardinality(Succeeded) = Min(Cardinality(Started), event.capacity)
       /\ \A c \in Started \ Succeeded : call[c].outcome = "EventFull"

\* C6 amended: N distinct callers on an event of capacity C: at most
\* min(N, C) succeed; every other caller receives EventFull or, its attempts
\* used up, Contention; exactly min(N, C) succeed when no caller ends with
\* Contention, which is so whenever N is at most the number of attempts; with
\* C = 1 and N = 2 one caller succeeds with registeredCount = 1 and the other
\* receives EventFull.
C6_Amended ==
    (AllSettled /\ DistinctCallers)
    => LET n == Cardinality(Started)
           contended == {c \in Started : call[c].outcome = "Contention"}
       IN /\ Cardinality(Succeeded) <= Min(n, event.capacity)
          /\ \A c \in Started \ Succeeded :
                call[c].outcome \in {"EventFull", "Contention"}
          /\ contended = {} => Cardinality(Succeeded) = Min(n, event.capacity)
          /\ n <= MaxAttempts => contended = {}
          /\ (n = 2 /\ event.capacity = 1)
             => /\ event.registeredCount = 1
                /\ \E c, d \in Started : /\ call[c].outcome = "ok"
                                         /\ call[d].outcome = "EventFull"

\* C6 witness: three distinct callers on an event of capacity 2: two have
\* succeeded and the third has received EventFull.
C6_Witness ==
    /\ AllSettled /\ DistinctCallers
    /\ Cardinality(Started) = 3
    /\ event.capacity = 2
    /\ Cardinality(Succeeded) = 2
    /\ \E c \in Started : call[c].outcome = "EventFull"

\* C7 as claimed: a register call whose transaction reads a full event
\* always ends with EventFull, whoever calls, and a full event is not changed.
C7_Original ==
    [][/\ (event.state = "live" /\ IsFull(event))
          => (event' = event /\ registrations' = registrations)
       /\ \A c \in Calls :
             (call[c].pc = "getRegistration" /\ IsFull(call[c].data)
                 /\ call'[c] # call[c])
             => call'[c].outcome = "EventFull"]_vars

\* C7 amended: a register call whose transaction reads a full event ends
\* with AlreadyRegistered when the caller holds a registration document and
\* with EventFull when not; either way registeredCount and the registration
\* documents of a full event do not change.
C7_Amended ==
    [][/\ (event.state = "live" /\ IsFull(event))
          => (event' = event /\ registrations' = registrations)
       /\ \A c \in Calls :
             (call[c].pc = "getRegistration" /\ IsFull(call[c].data)
                 /\ call'[c] # call[c])
             => /\ call'[c].pc = "done"
                /\ call'[c].outcome = IF call[c].user \in registrations
                                      THEN "AlreadyRegistered"
                                      ELSE "EventFull"]_vars

\* C7 witness: on a full event one call has been answered AlreadyRegistered
\* and another EventFull.
C7_Witness ==
    /\ event.state = "live" /\ IsFull(event)
    /\ \E c, d \in Calls :
          /\ call[c].outcome = "AlreadyRegistered"
          /\ call[d].outcome = "EventFull"
          /\ call[c].user \in registrations
          /\ call[d].user \notin registrations
    /\ event.registeredCount = Cardinality(Succeeded)

\* C8 as claimed: on an event whose status is not 'publicado' every register
\* call fails with EventNotPublished and nothing is written.
C8_Original ==
    (event.state = "live" /\ event.status # "publicado")
    => /\ event.registeredCount = 0
       /\ registrations = {}
       /\ \A c \in Calls : call[c].pc = "done" => call[c].outcome = "EventNotPublished"

BusinessFailures == {"NotFound", "AlreadyRegistered", "EventFull", "EventNotPublished"}
RetryLaterFailures == {"Contention", "TransportFailure"}
GenericMessages == {MsgNoSePudo, MsgErrorAlRegistrarse}

\* C9 as claimed: a business-rule failure reaches the caller of
\* registerForEventAction with a message of its own: not a generic one, and
\* not the message of a failure of another kind.
C9_Original ==
    \A c \in Calls :
       (call[c].pc = "done" /\ call[c].outcome \in BusinessFailures)
       => /\ ~call[c].success
          /\ call[c].message \notin GenericMessages
          /\ \A d \in Calls :
                (call[d].pc = "done" /\ ~call[d].success
                    /\ call[d].outcome # call[c].outcome)
                => call[d].message # call[c].message

\* C10 as claimed: Contention and transport failures reach the caller as one
\* class, which no business-rule failure shares.
C10_Original ==
    \A c, d \in Calls :
       (call[c].pc = "done" /\ call[c].outcome \in RetryLaterFailures /\ call[d].pc = "done")
       => /\ call[d].outcome \in RetryLaterFailures => call[d].message = call[c].message
          /\ call[d].outcome \in BusinessFailures => call[d].message # call[c].message

\* ------------------------------------------------ RegisterButton's claims
\* The state of the button's attempt, read off the component's state.
RegistrationState(b) ==
    IF ~b.mounted THEN "Unmounted"
    ELSE IF isPending(b) THEN "Speculating"
    ELSE IF b.result = "success" THEN "Confirmed"
    ELSE IF b.result = "failure" THEN "RolledBack"
    ELSE "Idle"

\* The step is the arrival of a successful / failed result at the button.
ResolvesWith(success) ==
    \E c \in button.pending :
       /\ button'.pending = button.pending \ {c}
       /\ call[c].pc = "done"
       /\ call[c].success = success

\* The step is a click that issues a call of registerForEventAction.
Clicks == button.mounted /\ button'.pending # button.pending /\ button.pending \subseteq button'.pending

\* C11 as claimed: a click with A > 0 spots makes the speculative value
\* max(0, A - 1) while the call is pending; when the server confirms, the
\* attempt ends Confirmed with the authoritative value A - 1.
C11_Original ==
    [][/\ Clicks => /\ button.availableSpots > 0
                    /\ optimisticSpots(button') = Max(0, button.availableSpots - 1)
       /\ ResolvesWith(TRUE)
          => /\ RegistrationState(button') = "Confirmed"
             /\ button'.availableSpots = button.availableSpots - 1]_vars

\* C11 amended: a click with A > 0 spots makes the speculative value
\* max(0, A - 1) for as long as the call is pending; when the server
\* confirms, the attempt ends Confirmed and the authoritative value becomes
\* capacity - registeredCount as the ledger holds them at the refresh, which
\* is A - 1 when the button's registration is the only write to the event
\* since A was rendered; the speculative value then equals the authoritative.
C11_Amended ==
    [][/\ Clicks => /\ button.availableSpots > 0
                    /\ optimisticSpots(button') = Max(0, button.availableSpots - 1)
       /\ RegistrationState(button') = "Speculating"
          => /\ button'.availableSpots > 0
             /\ optimisticSpots(button') = Max(0, button'.availableSpots - 1)
       /\ ResolvesWith(TRUE)
          => /\ RegistrationState(button') = "Confirmed"
             /\ button'.availableSpots = event.capacity - event.registeredCount
             /\ optimisticSpots(button') = button'.availableSpots
             /\ event.updateTime = button.version + 1
                => button'.availableSpots = button.availableSpots - 1]_vars

\* C11 witness: the button, rendered with 2 spots, has been confirmed and now
\* holds 1 spot, no other write having reached the event.
C11_Witness ==
    /\ RegistrationState(button) = "Confirmed"
    /\ event.capacity = 2
    /\ button.availableSpots = 1
    /\ event.updateTime = 2
    /\ registrations = {button.user}

C14_AtMostOneInFlight ==
    /\ [](Cardinality(button.pending) <= 1)
    /\ [](isPending(button) => Render(button).disabled)
    /\ [][Clicks => ~isPending(button)]_vars

\* C14 witness: a call of the button is about to commit while the button,
\* rendered disabled, takes no click.
C14_Witness ==
    /\ \E c \in button.pending : call[c].pc = "commit"
    /\ Render(button).disabled

\* C15 as claimed: once an attempt has ended Confirmed the button stays
\* disabled, even when spots remain; after RolledBack the button, when the
\* event is available and has spots, takes a new click.
C15_Original ==
    /\ RegistrationState(button) = "Confirmed" => Render(button).disabled
    /\ (RegistrationState(button) = "RolledBack"
           /\ button.isAvailable /\ button.availableSpots > 0)
       => ~Render(button).disabled

\* The messages a failed registerForEventAction returns.
FailureReasons ==
    {MsgYaRegistrado, MsgLleno, MsgNoSePudo, MsgErrorAlRegistrarse, MsgDebesIniciarSesion}

\* C16 as claimed: after a failed attempt the user is shown the failure's
\* reason: what the button renders carries the message of the failed result.
C16_Original ==
    RegistrationState(button) = "RolledBack"
    => (Render(button).text \in FailureReasons /\ Render(button).text = button.console)

C18_AuthBeforeLedger ==
    /\ [](\A c \in Calls :
             (call[c].pc # "idle" /\ call[c].user = NoToken)
             => /\ call[c].pc = "done"
                /\ call[c].outcome = "Unauthenticated"
                /\ call[c].success = authError.success
                /\ call[c].message = authError.message)
    /\ [](\A o \in Ops :
             (op[o].pc # "idle" /\ op[o].user = NoToken)
             => /\ op[o].pc = "done"
                /\ op[o].outcome = "Unauthenticated"
                /\ op[o].message = authError.message)
    /\ [](authError.errors.auth = <<MsgNoAutenticado>> /\ ~authError.success)
    /\ [](NoToken \notin registrations /\ (event.state = "live" => event.organizerId # NoToken))
    /\ [][((\E c \in Calls : call[c].outcome # "Unauthenticated"
                               /\ call'[c].outcome = "Unauthenticated")
            \/ (\E o \in Ops : op[o].outcome # "Unauthenticated"
                                /\ op'[o].outcome = "Unauthenticated"))
           => (event' = event /\ registrations' = registrations)]_vars

\* C18 witness: beside a live event with a registration, a register call
\* and a delete without a token have both ended with authError().
C18_Witness ==
    /\ event.state = "live"
    /\ event.registeredCount = 1
    /\ \E c \in Calls : call[c].outcome = "Unauthenticated"
    /\ \E o \in Ops : op[o].kind = "delete" /\ op[o].outcome = "Unauthenticated"

\* --------------------------------------------------------- searchCountries
\* C19 as claimed: searchCountries returns [] without a request when the
\* trimmed name is empty, [] on a 404, the array on a 2xx array body, and
\* in every other outcome throws an ApiError, never an error of another type.
C19_Original ==
    search.pc = "done"
    => /\ Len(Trim(search.name)) = 0
          => (search.settled = "returned" /\ search.value = <<>> /\ search.requests = 0)
       /\ search.status = 404 => (search.settled = "returned" /\ search.value = <<>>)
       /\ (ResponseOk(search.status) /\ search.body.kind = "array")
          => (search.settled = "returned" /\ search.value = search.body.items)
       /\ search.settled = "returned"
          => \/ Len(Trim(search.name)) = 0
             \/ search.status = 404
             \/ (ResponseOk(search.status) /\ search.body.kind = "array")
       /\ search.settled = "thrown" => search.error.type = "ApiError"

\* ------------------------------------------------- the order of the checks
\* C20: when several failure conditions hold at once for a register call,
\* it reports the first of them in the order NotFound, AlreadyRegistered,
\* EventFull, EventNotPublished: NotFound for a missing event whatever
\* else holds, AlreadyRegistered for a caller with a registration document
\* on a full or unpublished event, EventFull on a full unpublished event.
C20_FirstFailureInOrder ==
    [][\A c \in Calls :
         (call'[c] # call[c] /\ call'[c].outcome # "TransportFailure")
         => LET registered == call[c].user \in registrations
                full == IsFull(call[c].data)
                unpublished == call[c].data.status # "publicado"
            IN /\ (call[c].pc = "getEvent" /\ event.state # "live")
                  => call'[c].outcome = "NotFound"
               /\ (call[c].pc = "getRegistration" /\ registered /\ (full \/ unpublished))
                  => call'[c].outcome = "AlreadyRegistered"
               /\ (call[c].pc = "getRegistration" /\ ~registered /\ full /\ unpublished)
                  => call'[c].outcome = "EventFull"]_vars

\* C20 witness: on a full event that is not published, a caller who holds a
\* registration document has been answered AlreadyRegistered.
C20_Witness ==
    /\ event.state = "live"
    /\ IsFull(event)
    /\ event.status # "publicado"
    /\ \E c \in Calls : /\ call[c].outcome = "AlreadyRegistered"
                         /\ call[c].user \in registrations

\* ------------------------------------------------- the commit of a register
\* C21: the registration document and the increment of registeredCount are
\* written by one commit: every step that adds a registration document or
\* changes registeredCount is the commit of one call, adds exactly the
\* caller's document, which did not exist, and adds exactly 1 to the count;
\* a call that ends without success, also after a retried or given-up
\* transaction, writes nothing; no document is ever removed.
C21_MarkerAndIncrementTogether ==
    [][/\ registrations \subseteq registrations'
       /\ (event.state = "live" /\ event'.state = "live"
              /\ (registrations' # registrations
                     \/ event'.registeredCount # event.registeredCount))
          => \E c \in Calls :
                /\ call[c].pc = "commit" /\ call'[c].outcome = "ok"
                /\ call[c].user \notin registrations
                /\ registrations' = registrations \cup {call[c].user}
                /\ event'.registeredCount = event.registeredCount + 1
       /\ \A c \in Calls :
             (call'[c] # call[c] /\ call'[c].outcome # "ok")
             => (event' = event /\ registrations' = registrations)]_vars

\* C21 witness: one call has given up after its retries while two others
\* committed: two documents, registeredCount 2.
C21_Witness ==
    /\ \E c \in Calls : call[c].outcome = "Contention"
    /\ Cardinality(registrations) = 2
    /\ event.registeredCount = 2

\* ---------------------------------------------------------- linearizability
\* The orders in which the calls of the set S can be run one after another.
Orders(S) ==
    {f \in [1..Cardinality(S) -> S] : \A i, j \in 1..Cardinality(S) : f[i] = f[j] => i = j}

\* register(eventId, u) run alone, its checks and its writes in one step.
AtomicRegister(ledger, u) ==
    IF ledger.event.state # "live"
    THEN [outcome |-> "NotFound", ledger |-> ledger]
    ELSE LET decision == RegisterDecision(u \in ledger.registrations, ledger.event)
         IN IF decision = "write"
            THEN [outcome |-> "ok",
                  ledger |-> [event |-> CommittedEvent(ledger.event),
                              registrations |-> CommittedRegistrations(ledger.registrations, u)]]
            ELSE [outcome |-> decision, ledger |-> ledger]

\* Run one after another in the given order from the given ledger, the calls
\* have the results they had, and the ledger ends as it is now.
RECURSIVE SequentialRunMatches(_, _, _)
SequentialRunMatches(order, i, ledger) ==
    IF i > Len(order)
    THEN ledger.event = event /\ ledger.registrations = registrations
    ELSE LET r == AtomicRegister(ledger, call[order[i]].user)
         IN /\ r.outcome = call[order[i]].outcome
            /\ SequentialRunMatches(order, i + 1, r.ledger)

\* The ledger right after createEvent.
CreatedLedger ==
    [event |-> [event EXCEPT !.registeredCount = 0, !.updateTime = 1],
     registrations |-> {}]

\* C22 as claimed: when the calls made have all settled, their results and
\* the ledger are those of the same calls run one after another in some order.
C22_Original ==
    AllSettled => \E order \in Orders(Started) : SequentialRunMatches(order, 1, CreatedLedger)

\* C22 amended: when the calls made have all settled, the calls that did not
\* end with Contention have the results, and leave the ledger, of those calls
\* run one after another in some order; a call that ends with Contention
\* (its attempts used up) has written nothing, and no call ends so when the
\* calls are at most as many as the attempts.
C22_Amended ==
    AllSettled
    => LET contended == {c \in Started : call[c].outcome = "Contention"}
       IN /\ \E order \in Orders(Started \ contended) :
                SequentialRunMatches(order, 1, CreatedLedger)
          /\ Cardinality(Started) <= MaxAttempts => contended = {}

\* C22 witness: three calls have settled, the first-begun with
\* AlreadyRegistered after a retry behind a later call of the same user,
\* with another user's registration committed as well.
C22_Witness ==
    /\ AllSettled
    /\ Cardinality(Started) = 3
    /\ call[1].outcome = "AlreadyRegistered"
    /\ \E c \in Calls : c # 1 /\ call[c].user = call[1].user /\ call[c].outcome = "ok"
    /\ event.registeredCount = 2

\* ------------------------------------------------- the attempt's life cycle
\* The steps an attempt's state may take: the page is opened; a click starts
\* an attempt; a pending attempt ends Confirmed or RolledBack.
AttemptTransition(from, to) ==
    \/ from = to
    \/ from = "Unmounted" /\ to = "Idle"
    \/ from \in {"Idle", "Confirmed", "RolledBack"} /\ to = "Speculating"
    \/ from = "Speculating" /\ to \in {"Confirmed", "RolledBack"}

\* C23: an attempt of the button goes Idle -> Speculating -> Confirmed or
\* RolledBack and no other way; a call once issued is pending until its
\* result has arrived (it is never cancelled), ends Confirmed exactly on a
\* successful result and RolledBack exactly on a failed one; and, the server
\* call returning, a Speculating attempt always ends.
C23_AttemptLifeCycle ==
    /\ [][AttemptTransition(RegistrationState(button), RegistrationState(button'))]_vars
    /\ [][\A c \in button.pending :
             /\ call'[c].pc # "idle"
             /\ c \notin button'.pending
                => /\ call[c].pc = "done"
                   /\ RegistrationState(button') =
                         IF call[c].success THEN "Confirmed" ELSE "RolledBack"]_vars
    /\ (RegistrationState(button) = "Speculating")
          ~> (RegistrationState(button) \in {"Confirmed", "RolledBack"})

\* C23 witness: a second attempt of the button has ended RolledBack with
\* 'Ya estas registrado en este evento' after a first that was confirmed.
C23_Witness ==
    /\ RegistrationState(button) = "RolledBack"
    /\ button.console = MsgYaRegistrado
    /\ \E c \in Calls : call[c].outcome = "ok" /\ call[c].user = button.user
    /\ Cardinality({c \in Calls : call[c].user = button.user}) = 2

\* ------------------------------------------------------ update and delete
\* C24: updateEventAction and deleteEventAction change or remove the event
\* document only for its organizer: a call of another authenticated user
\* never reaches the write and leaves the document as it is and present.
C24_OnlyOrganizerModifies ==
    /\ [](\A o \in Ops :
             (op[o].pc = "write" /\ event.state = "live")
             => op[o].user = event.organizerId)
    /\ [][/\ (event.state = "live" /\ event' # event
                 /\ ~\E c \in Calls : call[c].pc = "commit" /\ call'[c].outcome = "ok")
              => \E o \in Ops : /\ op[o].pc = "write" /\ op'[o].outcome = "ok"
                                 /\ op[o].user = event.organizerId
          /\ \A o \in Ops :
                 (op'[o] # op[o] /\ event.state = "live" /\ op'[o].user # NoToken
                    /\ op'[o].user # event.organizerId)
                 => (event' = event /\ op'[o].pc # "write")]_vars

\* C24 witness: an authenticated user who is not the organizer has called
\* an update or a delete, which ended with 'Unauthorized'; the event is
\* there, never written since its creation.
C24_Witness ==
    /\ event.state = "live"
    /\ event.updateTime = 1
    /\ \E o \in Ops : /\ op[o].pc = "done" /\ op[o].user # NoToken
                       /\ op[o].user # event.organizerId
                       /\ op[o].message = MsgUnauthorized

\* C25 as claimed: an update or a delete called by an authenticated user
\* that does not succeed (the caller is not the organizer, or the event does
\* not exist) returns success = false with the 'no se encontro ... o no
\* tienes permisos' message of its action, and does not throw.
C25_Original ==
    \A o \in Ops :
       (op[o].pc = "done" /\ op[o].kind \in {"update", "delete"}
          /\ op[o].user # NoToken /\ op[o].outcome # "ok")
       => /\ op[o].outcome # "Thrown"
          /\ op[o].message = IF op[o].kind = "update" THEN MsgUpdateNotFound
                              ELSE MsgDeleteNotFound

\* ------------------------------------- registerForEvent, the earlier variant
\* The document that the step settling call c decides on.
EarlyDocRead(c) == IF call[c].pc = "earlyGet" THEN event ELSE call[c].data

\* The event exists, has a spot left and is published.
EarlyCanRegister(doc) ==
    /\ doc.state = "live"
    /\ doc.registeredCount < doc.capacity
    /\ doc.status = "publicado"

\* C26 as claimed: the earlier variant succeeds exactly when the event
\* exists, registeredCount < capacity and status is 'publicado'; a success
\* adds exactly 1 to registeredCount and returns the updated event; in every
\* other case the call returns null and writes nothing.
C26_Original ==
    [][\A c \in Calls :
         (call'[c] # call[c] /\ call'[c].pc = "done")
         => /\ call'[c].outcome = "ok" <=> EarlyCanRegister(EarlyDocRead(c))
            /\ call'[c].outcome = "ok"
               => /\ event'.registeredCount = event.registeredCount + 1
                  /\ call'[c].data.registeredCount = event'.registeredCount
                  /\ registrations' = registrations
            /\ call'[c].outcome # "ok"
               => (call'[c].outcome = "null" /\ event' = event)]_vars

\* C26 amended: the earlier variant succeeds only when the event its
\* transaction read exists, has registeredCount < capacity and status
\* 'publicado'; a success adds exactly 1 to registeredCount and returns the
\* updated event; when the event read fails these conditions the call
\* returns null and writes nothing; when concurrent writes make the
\* transaction use up its attempts the call rejects instead of returning
\* null, and writes nothing; a call that runs alone succeeds exactly when
\* the conditions hold.
C26_Amended ==
    [][\A c \in Calls :
         (call'[c] # call[c] /\ call'[c].pc = "done")
         => /\ call'[c].outcome \in {"ok", "null", "Contention"}
            /\ call'[c].outcome = "ok"
               => /\ EarlyCanRegister(EarlyDocRead(c))
                  /\ event'.registeredCount = event.registeredCount + 1
                  /\ call'[c].data.registeredCount = event'.registeredCount
                  /\ call'[c].data.capacity = event.capacity
                  /\ registrations' = registrations
            /\ call'[c].outcome = "null"
               => (~EarlyCanRegister(EarlyDocRead(c)) /\ event' = event)
            /\ call'[c].outcome = "Contention"
               => /\ event' = event
                  /\ event # call[c].data
                  /\ call[c].attempt = MaxAttempts
            /\ Started = {c}
               => (call'[c].outcome = "ok" <=> EarlyCanRegister(EarlyDocRead(c)))]_vars

\* C26 witness: on a published event of capacity 2 two calls have
\* succeeded and a third has returned null.
C26_Witness ==
    /\ event.status = "publicado"
    /\ event.registeredCount = 2
    /\ Cardinality({c \in Calls : call[c].outcome = "ok"}) = 2
    /\ \E c \in Calls : call[c].outcome = "null"

\* --------------------------------------------------- delete beside register
\* C27: once deleteEvent has removed the event document, no registration
\* commits: no step changes the deleted document (it is not written again,
\* nor recreated), no registration document is added, and no call ends
\* with success; a call that was between its read and its commit when the
\* delete happened does not commit.
C27_NoCommitAfterDelete ==
    [][event.state = "deleted"
       => /\ event' = event
          /\ registrations' = registrations
          /\ \A c \in Calls : call'[c].outcome = "ok" => call[c].outcome = "ok"]_vars

\* C27 witness: the event has been deleted while a call that had read it,
\* after another call's registration, is about to commit.
C27_Witness ==
    /\ event.state = "deleted"
    /\ \E o \in Ops : op[o].kind = "delete" /\ op[o].outcome = "ok"
    /\ \E c \in Calls : /\ call[c].pc = "commit"
                         /\ call[c].data.state = "live"
                         /\ call[c].user \notin registrations
    /\ Cardinality(registrations) = 1

\* ------------------------------------------- AuthProvider, the cookie variant
\* The cookie firebase-auth-token holds the ID token of one account (named by
\* its account here) or is absent; validateAuth reads it on the server.
AuthUsers == 1..MaxAuthUsers

\* A browser that loads the page: the cookie of an earlier visit may be there.
InitAuth ==
    /\ event = NoDoc
    /\ registrations = {}
    /\ call = [c \in Calls |-> IdleCall]
    /\ op = [o \in Ops |-> IdleOp]
    /\ button = NoButton
    /\ search = IdleSearch
    /\ \E c \in {NoCookie} \cup AuthUsers :
          authProvider = [UnmountedAuthProvider EXCEPT !.cookie = c]
    /\ loginForm = UnmountedLoginForm
    /\ eventForm = UnmountedEventForm

\* The observer is notified of the auth state u (the first notification gives
\* the state at load, a later one a sign-in, a sign-out or another account):
\* the callback runs up to its first await, or to its end for a signed-out user.
authStateChanged(u) ==
    /\ authProvider.events < MaxAuthEvents
    /\ authProvider.events > 0 => u # authProvider.current
    /\ authProvider' =
          IF u # NoUser
          THEN [authProvider EXCEPT
                  !.current = u, !.user = u, !.events = @ + 1,
                  !.awaiting = @ \cup {[n |-> authProvider.events + 1, user |-> u]}]
          ELSE [authProvider EXCEPT
                  !.current = u, !.user = u, !.events = @ + 1,
                  !.cookie = NoCookie, !.loading = FALSE]
    /\ UNCHANGED <<event, registrations, call, op, button, search, loginForm, eventForm>>

\* user.getIdToken() fulfils for one suspended callback, which writes the
\* cookie and ends; user is the callback's own parameter.
getIdTokenResolves(cb) ==
    /\ cb \in authProvider.awaiting
    /\ authProvider' =
          [authProvider EXCEPT
             !.cookie = cb.user, !.loading = FALSE, !.awaiting = @ \ {cb}]
    /\ UNCHANGED <<event, registrations, call, op, button, search, loginForm, eventForm>>

\* user.getIdToken() rejects (the token could not be refreshed): the callback
\* ends with an unhandled rejection before it writes anything.
getIdTokenRejects(cb) ==
    /\ cb \in authProvider.awaiting
    /\ authProvider' = [authProvider EXCEPT !.awaiting = @ \ {cb}]
    /\ UNCHANGED <<event, registrations, call, op, button, search, loginForm, eventForm>>

AuthCallbacks == [n : 1..MaxAuthEvents, user : AuthUsers]

NextAuth ==
    \/ \E u \in {NoUser} \cup AuthUsers : authStateChanged(u)
    \/ \E cb \in AuthCallbacks : getIdTokenResolves(cb)
    \/ \E cb \in AuthCallbacks : getIdTokenRejects(cb)

SpecAuth == InitAuth /\ [][NextAuth]_vars

\* A token cookie is set although every callback has ended and the user is
\* signed out: the state a sign-out overtaking a suspended sign-in callback
\* leaves, and no other run does.
SignedOutWithToken ==
    /\ authProvider.events > 0
    /\ authProvider.awaiting = {}
    /\ authProvider.current = NoUser
    /\ authProvider.cookie # NoCookie

\* C28: once every auth-state callback has completed, the cookie holds a token
\* exactly when the latest auth state is signed-in; in particular a sign-out
\* that arrives while a sign-in callback awaits getIdToken leaves no token
\* cookie behind.
C28_Original ==
    /\ (authProvider.events > 0 /\ authProvider.awaiting = {})
          => (authProvider.cookie # NoCookie <=> authProvider.current # NoUser)
    /\ ~SignedOutWithToken

\* ------------------------------------------------------------- LoginForm
MsgNoConfigurado == "Firebase no esta configurado"
MsgPasswordIncorrecta == "Contrasena incorrecta"
MsgCredencialesInvalidas == "Credenciales invalidas"
MsgPopupCerrado == "Se cerro la ventana de autenticacion"
MsgEmailEnUso == "Este email ya esta registrado"

\* The messages of the errors Firebase rejects with in this model: four the
\* translation table knows and one it does not.
FirebaseErrors ==
    {"Firebase: Error (auth/wrong-password).",
     "Firebase: Error (auth/invalid-credential).",
     "Firebase: Error (auth/popup-closed-by-user).",
     "Firebase: Error (auth/email-already-in-use).",
     "Firebase: Error (auth/network-request-failed)."}

\* translateFirebaseError: the translation of the first code the message
\* includes, else the message itself.
translateFirebaseError(message) ==
    CASE message = "Firebase: Error (auth/email-already-in-use)." -> MsgEmailEnUso
      [] message = "Firebase: Error (auth/wrong-password)." -> MsgPasswordIncorrecta
      [] message = "Firebase: Error (auth/invalid-credential)." -> MsgCredencialesInvalidas
      [] message = "Firebase: Error (auth/popup-closed-by-user)." -> MsgPopupCerrado
      [] OTHER -> message

\* The form on the auth page after the provider's effect: Firebase is
\* configured or it is not, nobody is signed in.
InitLogin ==
    /\ event = NoDoc
    /\ registrations = {}
    /\ call = [c \in Calls |-> IdleCall]
    /\ op = [o \in Ops |-> IdleOp]
    /\ button = NoButton
    /\ search = IdleSearch
    /\ authProvider = UnmountedAuthProvider
    /\ \E configured \in BOOLEAN :
          loginForm = [UnmountedLoginForm EXCEPT !.auth = configured, !.loading = FALSE]
    /\ eventForm = UnmountedEventForm

\* toggleMode.
toggleMode ==
    /\ ~loginForm.isSubmitting
    /\ loginForm' = [loginForm EXCEPT !.isLogin = ~@, !.error = ""]
    /\ UNCHANGED <<event, registrations, call, op, button, search, authProvider, eventForm>>

\* What a handler leaves when the context's method returned without throwing:
\* router.push('/') and, in finally, setIsSubmitting(false).
Navigated(form) ==
    [form EXCEPT !.pushed = Append(@, "/"), !.navigated = TRUE,
                 !.isSubmitting = FALSE, !.pc = "idle"]

\* The submit button and the Google button are disabled while isSubmitting.
CanSubmit ==
    /\ ~loginForm.isSubmitting
    /\ loginForm.pc = "idle"
    /\ loginForm.submits < MaxSubmits

\* A handler from its call to the await that suspends it: setIsSubmitting(true),
\* clearError, then the context's method up to its Firebase call (awaiting
\* names that call). Without an Auth the method calls setError and returns,
\* it does not throw, and the handler runs to its end.
Submitted(awaiting) ==
    LET begun == [loginForm EXCEPT !.isSubmitting = TRUE, !.error = "",
                                   !.submits = @ + 1,
                                   !.authenticated = FALSE,
                                   !.navigated = FALSE]
    IN IF ~loginForm.auth
       THEN Navigated([begun EXCEPT !.error = MsgNoConfigurado])
       ELSE [begun EXCEPT !.loading = TRUE, !.pc = awaiting]

\* handleSubmit: signIn or signUp, by the tab shown.
handleSubmit ==
    /\ CanSubmit
    /\ loginForm' = Submitted(IF loginForm.isLogin
                              THEN "signInWithEmailAndPassword"
                              ELSE "createUserWithEmailAndPassword")
    /\ UNCHANGED <<event, registrations, call, op, button, search, authProvider, eventForm>>

\* handleGoogleSignIn.
handleGoogleSignIn ==
    /\ CanSubmit
    /\ loginForm' = Submitted("signInWithPopup")
    /\ UNCHANGED <<event, registrations, call, op, button, search, authProvider, eventForm>>

\* signInWithEmailAndPassword or signInWithPopup fulfils for the account u:
\* Firebase holds u and notifies the observer, the method ends through
\* finally, the handler navigates.
SignInFulfils(u) ==
    /\ loginForm.pc \in {"signInWithEmailAndPassword", "signInWithPopup"}
    /\ loginForm' =
          Navigated([loginForm EXCEPT !.session = u, !.user = u,
                                      !.authenticated = TRUE, !.loading = FALSE])
    /\ UNCHANGED <<event, registrations, call, op, button, search, authProvider, eventForm>>

\* createUserWithEmailAndPassword fulfils: the new account is signed in, and
\* signUp goes on to updateProfile.
CreateUserFulfils(u) ==
    /\ loginForm.pc = "createUserWithEmailAndPassword"
    /\ loginForm' = [loginForm EXCEPT !.session = u, !.user = u,
                                      !.authenticated = TRUE,
                                      !.pc = "updateProfile"]
    /\ UNCHANGED <<event, registrations, call, op, button, search, authProvider, eventForm>>

\* updateProfile fulfils: setUser, finally, and the handler navigates.
UpdateProfileFulfils ==
    /\ loginForm.pc = "updateProfile"
    /\ loginForm' = Navigated([loginForm EXCEPT !.user = loginForm.session,
                                                !.loading = FALSE])
    /\ UNCHANGED <<event, registrations, call, op, button, search, authProvider, eventForm>>

\* The awaited Firebase call rejects: the method's catch translates the
\* message and rethrows, its finally clears loading; the handler's catch
\* swallows the error and its finally clears isSubmitting.
FirebaseRejects(message) ==
    /\ loginForm.pc \in {"signInWithEmailAndPassword", "signInWithPopup",
                         "createUserWithEmailAndPassword", "updateProfile"}
    /\ loginForm' = [loginForm EXCEPT !.error = translateFirebaseError(message),
                                      !.loading = FALSE,
                                      !.isSubmitting = FALSE, !.pc = "idle"]
    /\ UNCHANGED <<event, registrations, call, op, button, search, authProvider, eventForm>>

NextLogin ==
    \/ toggleMode
    \/ handleSubmit
    \/ handleGoogleSignIn
    \/ \E u \in AuthUsers : SignInFulfils(u)
    \/ \E u \in AuthUsers : CreateUserFulfils(u)
    \/ UpdateProfileFulfils
    \/ \E message \in FirebaseErrors : FirebaseRejects(message)

SpecLogin == InitLogin /\ [][NextLogin]_vars

\* C29: LoginForm navigates to '/' only after signIn, signUp or
\* signInWithGoogle authenticated the user (no navigation after wrong
\* credentials, a closed popup, or with Firebase not configured), and
\* isSubmitting is false again after every submit.
C29_Original ==
    /\ loginForm.navigated => loginForm.authenticated
    /\ Len(loginForm.pushed) > 0 => loginForm.session # NoUser
    /\ loginForm.pc = "idle" => ~loginForm.isSubmitting

\* --------------------------------------------------------------- EventForm
ToastTituloCorto == "Escribe un titulo descriptivo primero (minimo 5 caracteres)"
ToastMagia == "Se han completado los detalles con ayuda de Gemini AI."
ToastSinContenido == "No se pudo generar el contenido"
ToastPromptCorto == "Primero completa el titulo para generar un poster."
ToastPoster == "Se ha generado y subido un nuevo poster."
ToastSinPoster == "No se pudo generar el poster"
ToastInesperado == "Ocurrio un error inesperado"

\* The shortest title MagicGenerateButton accepts, the shortest prompt
\* PosterGenerator accepts, and the length of the prompt's fixed text
\* ("Title: ", ". Description: ", ". Tags: ") around an empty description
\* and no tags.
MinTitleLength == 5
MinPromptLength == 5
PromptFixedLength == 30
TitleLengths == {0, MinTitleLength - 1, MinTitleLength, MaxTitleLen}

\* How the awaited AI action ends: success with data, success = false, or a
\* throw (a rejection, or the callback given the data throwing).
GenerationOutcomes == {"success", "error", "throw"}

\* The form on the create page or on the edit page.
InitForm ==
    /\ event = NoDoc
    /\ registrations = {}
    /\ call = [c \in Calls |-> IdleCall]
    /\ op = [o \in Ops |-> IdleOp]
    /\ button = NoButton
    /\ search = IdleSearch
    /\ authProvider = UnmountedAuthProvider
    /\ loginForm = UnmountedLoginForm
    /\ \E editing \in BOOLEAN :
          eventForm = [UnmountedEventForm EXCEPT
                         !.mounted = TRUE, !.isEditing = editing,
                         !.title = IF editing THEN MinTitleLength ELSE 0]

\* SubmitButton's disabled: pending || isLoading, with isLoading the two flags.
SubmitDisabledTextOnly(form) == form.pending \/ form.isAiGenerating
SubmitDisabled(form) ==
    form.pending \/ form.isAiGenerating \/ form.isPosterGenerating

\* The user edits the title input.
typeTitle(n) ==
    /\ eventForm.mounted
    /\ n # eventForm.title
    /\ eventForm' = [eventForm EXCEPT !.title = n]
    /\ UNCHANGED <<event, registrations, call, op, button, search, authProvider, loginForm>>

\* MagicGenerateButton.handleGenerate up to its await. The button is rendered
\* on the create form only and is disabled while its own isGenerating.
MagicGenerate ==
    /\ eventForm.mounted
    /\ ~eventForm.isEditing
    /\ ~eventForm.magic.isGenerating
    /\ eventForm.generations < MaxGenerations
    /\ eventForm' =
          IF eventForm.title < MinTitleLength
          THEN [eventForm EXCEPT !.toast = ToastTituloCorto,
                                 !.generations = @ + 1]
          ELSE [eventForm EXCEPT
                  !.magic = [isGenerating |-> TRUE, pc |-> "awaiting"],
                  !.isAiGenerating = TRUE, !.generations = @ + 1]
    /\ UNCHANGED <<event, registrations, call, op, button, search, authProvider, loginForm>>

\* MagicGenerateButton.handleGenerate after generateEventDetailsAction
\* settled: the toast of the outcome, then finally.
MagicSettles(outcome) ==
    /\ eventForm.mounted
    /\ eventForm.magic.pc = "awaiting"
    /\ eventForm' =
          [eventForm EXCEPT
             !.toast = CASE outcome = "success" -> ToastMagia
                         [] outcome = "error" -> ToastSinContenido
                         [] OTHER -> ToastInesperado,
             !.magic = [isGenerating |-> FALSE, pc |-> "idle"],
             !.isAiGenerating = FALSE,
             !.endedBesideOther = (eventForm.poster.pc = "awaiting")]
    /\ UNCHANGED <<event, registrations, call, op, button, search, authProvider, loginForm>>

\* PosterGenerator.handleGenerate up to its await. The button is disabled
\* while its own isGenerating; the prompt is never shorter than its fixed text.
PosterGenerate ==
    /\ eventForm.mounted
    /\ ~eventForm.poster.isGenerating
    /\ eventForm.generations < MaxGenerations
    /\ eventForm' =
          IF PromptFixedLength + eventForm.title < MinPromptLength
          THEN [eventForm EXCEPT !.toast = ToastPromptCorto,
                                 !.generations = @ + 1]
          ELSE [eventForm EXCEPT
                  !.poster = [isGenerating |-> TRUE, pc |-> "awaiting"],
                  !.isPosterGenerating = TRUE, !.generations = @ + 1]
    /\ UNCHANGED <<event, registrations, call, op, button, search, authProvider, loginForm>>

\* PosterGenerator.handleGenerate after generateEventPosterAction settled.
PosterSettles(outcome) ==
    /\ eventForm.mounted
    /\ eventForm.poster.pc = "awaiting"
    /\ eventForm' =
          [eventForm EXCEPT
             !.toast = CASE outcome = "success" -> ToastPoster
                         [] outcome = "error" -> ToastSinPoster
                         [] OTHER -> ToastInesperado,
             !.poster = [isGenerating |-> FALSE, pc |-> "idle"],
             !.isPosterGenerating = FALSE,
             !.endedBesideOther = (eventForm.magic.pc = "awaiting")]
    /\ UNCHANGED <<event, registrations, call, op, button, search, authProvider, loginForm>>

\* The user submits the form: the submit button must be enabled.
SubmitForm ==
    /\ eventForm.mounted
    /\ ~SubmitDisabled(eventForm)
    /\ eventForm' = [eventForm EXCEPT !.pending = TRUE]
    /\ UNCHANGED <<event, registrations, call, op, button, search, authProvider, loginForm>>

\* The form action settles. createEventAction redirects when it succeeds,
\* which unmounts the form; the other outcomes give the form a new state.
FormActionSettles(success) ==
    /\ eventForm.mounted
    /\ eventForm.pending
    /\ eventForm' =
          IF success /\ ~eventForm.isEditing
          THEN UnmountedEventForm
          ELSE [eventForm EXCEPT !.pending = FALSE]
    /\ UNCHANGED <<event, registrations, call, op, button, search, authProvider, loginForm>>

NextForm ==
    \/ \E n \in TitleLengths : typeTitle(n)
    \/ MagicGenerate
    \/ \E outcome \in GenerationOutcomes : MagicSettles(outcome)
    \/ PosterGenerate
    \/ \E outcome \in GenerationOutcomes : PosterSettles(outcome)
    \/ SubmitForm
    \/ \E success \in BOOLEAN : FormActionSettles(success)

SpecForm == InitForm /\ [][NextForm]_vars

\* A generation of the kind is in progress.
TextInProgress == eventForm.magic.pc = "awaiting"
PosterInProgress == eventForm.poster.pc = "awaiting"

====
